---- MODULE Spec2Model ----
(***************************************************************************)
(* Model of @azguardwallet/client: the EventHandlers registry, the         *)
(* AzguardClient session-store core and the channel it talks to.           *)
(*                                                                         *)
(* JavaScript runs the client on one event-loop thread: a call runs up to  *)
(* its first await, and a response, a push or a timer tick runs its whole  *)
(* continuation, without interleaving.  Each such run is one action.       *)
(***************************************************************************)
EXTENDS Integers, Sequences, FiniteSets, TLC

VARIABLES
    registry,       \* SpecEH: EventHandlers.#handlers, in insertion order
    run,            \* SpecEH: what the last dispatch() call did
    phase,          \* position of create()/#init
    rest,           \* getAzguardObject: remaining time of the poll
    azguard,        \* window.azguard: Absent or the version it reports
    found,          \* what getAzguardObject resolved with
    warned,         \* console.warn of #init was issued
    subscribed,     \* client.on(...) of #init was executed
    rpc,            \* this.#rpc is bound
    session,        \* this.#session
    storage,        \* localStorage entry azguard:session:<scope>
    handlers,       \* the four EventHandlers registries of the client
    inflight,       \* requests sent to the channel and not yet answered
    sent,           \* requests the last step sent to the channel
    ret,            \* how the call completed that the last step ran
    received,       \* the answer or push of the channel the last step consumed
    log,            \* what the handlers invoked by the last step observed
    timeout,        \* getAzguardObject: the timeout it was called with
    ticks,          \* getAzguardObject: runs of the setInterval callback so far
    timer,          \* getAzguardObject: the interval is set and not cleared
    arg,            \* pure-function specifications: the input drawn
    closing         \* the wallet: ids of the sessions it closed on request and
                    \* has not yet pushed session_closed for

clientVars == <<phase, rest, azguard, found, warned, subscribed, rpc, session,
                storage, handlers, inflight, sent, ret, received, log,
                timeout, ticks, timer, arg, closing>>

vars == <<registry, run, phase, rest, azguard, found, warned, subscribed, rpc,
          session, storage, handlers, inflight, sent, ret, received, log,
          timeout, ticks, timer, arg, closing>>

\* what the client's steps other than the poll leave alone
frame == <<registry, run, timeout, ticks, timer, arg, closing>>

(***************************************************************************)
(* Bounds                                                                  *)
(***************************************************************************)
\* a dispatch loop is followed for at most this many handler invocations
MaxInvocations == 4

\* requests a consumer keeps in flight at once
MaxInflight == 1

\* handlers a consumer has registered on the client at once
MaxHandlers == 1

(***************************************************************************)
(* EventHandlers (event-handlers.ts)                                       *)
(*                                                                         *)
(* #handlers is a JavaScript Set.  Its data is a list of entries: add      *)
(* appends an entry unless the value is present, delete replaces the entry *)
(* by an empty one, and an iterator walks the list by index, skipping      *)
(* empty entries and seeing entries appended while it runs.                *)
(***************************************************************************)
Empty == "<empty>"

\* the handlers a consumer may register, told apart by what they do when invoked
Handlers == {"plain", "thrower", "reAdder", "remover", "adder"}

NoRun == [none |-> TRUE]

Range(s) == {s[i] : i \in DOMAIN s}

Count(x, s) == Cardinality({i \in DOMAIN s : s[i] = x})

\* live entries of a Set's data list, in order
Compact(list) == SelectSeq(list, LAMBDA x : x /= Empty)

addHandler(list, h) ==
    IF h \in Range(list) THEN list ELSE Append(list, h)

removeHandler(list, h) ==
    [i \in DOMAIN list |-> IF list[i] = h THEN Empty ELSE list[i]]

\* the body of handler h, run against the registry it is registered in
Invoke(h, list) ==
    CASE h = "thrower" -> [handlers |-> list, threw |-> TRUE]
      [] h = "reAdder" -> [handlers |-> addHandler(removeHandler(list, h), h), threw |-> FALSE]
      [] h = "remover" -> [handlers |-> removeHandler(list, "plain"), threw |-> FALSE]
      [] h = "adder"   -> [handlers |-> addHandler(list, "plain"), threw |-> FALSE]
      [] OTHER         -> [handlers |-> list, threw |-> FALSE]

\* a handler call outside any try block: the exception reaches the loop
NoCatch(r) == r

\* try { handler(payload); } catch {}
TryCatch(r) == [r EXCEPT !.threw = FALSE]

RECURSIVE dispatchFrom(_, _, _, _)
\* for (const handler of this.#handlers), from entry i on
dispatchFrom(list, i, invoked, fuel) ==
    IF i > Len(list)
    THEN [handlers |-> list, invoked |-> invoked, threw |-> FALSE, done |-> TRUE]
    ELSE IF list[i] = Empty
    THEN dispatchFrom(list, i + 1, invoked, fuel)
    ELSE IF fuel = 0
    THEN [handlers |-> list, invoked |-> invoked, threw |-> FALSE, done |-> FALSE]
    ELSE LET r == TryCatch(Invoke(list[i], list))
         IN  IF r.threw
             THEN [handlers |-> r.handlers, invoked |-> Append(invoked, list[i]),
                   threw |-> TRUE, done |-> TRUE]
             ELSE dispatchFrom(r.handlers, i + 1, Append(invoked, list[i]), fuel - 1)

\* EventHandlers.dispatch: done is FALSE when the loop was still running
\* after MaxInvocations handler invocations
dispatch(list) == dispatchFrom(list, 1, <<>>, MaxInvocations)

(***************************************************************************)
(* Version check (version.ts)                                              *)
(***************************************************************************)
Undefined == [def |-> FALSE, val |-> <<>>]

Some(v) == [def |-> TRUE, val |-> v]

RECURSIVE split(_)
\* String.prototype.split("."), on a string given as its characters
split(s) ==
    IF \A i \in DOMAIN s : s[i] /= "."
    THEN <<s>>
    ELSE LET i == CHOOSE k \in DOMAIN s : s[k] = "." /\ \A j \in 1..(k - 1) : s[j] /= "."
         IN  <<SubSeq(s, 1, i - 1)>> \o split(SubSeq(s, i + 1, Len(s)))

\* const [a, b] = array: element n, or undefined past the end
Destructure(arr, n) == IF n <= Len(arr) THEN Some(arr[n]) ELSE Undefined

\* packageJson.version
packageVersion == <<"1", ".", "2", ".", "0">>

majorVersion == Destructure(split(packageVersion), 1)

minorVersion == Destructure(split(packageVersion), 2)

\* isCompatible comparing the major segment only
isCompatibleMajorOnly(version) ==
    LET major == Destructure(split(version), 1)
    IN  major = majorVersion

isCompatible(version) ==
    LET major == Destructure(split(version), 1)
        minor == Destructure(split(version), 2)
    IN  major = majorVersion /\ minor = minorVersion

(***************************************************************************)
(* Data of the session-store core (client.ts)                              *)
(***************************************************************************)
\* localStorage.getItem returns null / a promise resolves with null
Null == "<null>"

SessionIds == {"s1", "s2"}

GrantA == [chains |-> Some(<<"c1">>), methods |-> Some(<<"m1">>), events |-> Undefined]

GrantB == [chains |-> Some(<<"c1">>), methods |-> Some(<<"m2">>), events |-> Undefined]

\* GrantA with an empty events list in place of an absent one
GrantAEmpty == [chains |-> Some(<<"c1">>), methods |-> Some(<<"m1">>), events |-> Some(<<>>)]

\* the approvals a wallet user may give: accounts and permissions
Approvals ==
    {[accounts |-> <<"a1">>, permissions |-> <<GrantA>>],
     [accounts |-> <<"a2">>, permissions |-> <<GrantA>>],
     [accounts |-> <<"a1", "a2">>, permissions |-> <<GrantA>>],
     [accounts |-> <<"a1">>, permissions |-> <<GrantB>>],
     [accounts |-> <<"a1">>, permissions |-> <<GrantAEmpty>>]}

\* DappSession values the wallet may hand out
Sessions ==
    {[id |-> i, accounts |-> a.accounts, permissions |-> a.permissions] :
        i \in SessionIds, a \in Approvals}

\* this.#session === undefined
NoSession == [none |-> TRUE]

\* versions window.azguard may report
WalletVersions == {<<"1", ".", "2", ".", "9">>, <<"1", ".", "3", ".", "0">>}

NoAzguard == [present |-> FALSE, version |-> <<>>]

Events == {"connected", "disconnected", "accountsChanged", "permissionsChanged"}

\* the handlers a consumer registers on the client's events: they read the
\* accessors and the storage entry, then throw (a handler that returns is
\* handled the same way by a dispatch that catches)
ClientHandlers == {"thrower"}

\* operation batches a consumer passes to execute
Batches == {<<"op1">>, <<"op1", "op2">>}

\* the result lists of a channel that keeps the contract of execute: one
\* result per operation, and the operations after a failed one are skipped
ChannelResults(operations) ==
    {r \in [DOMAIN operations -> {"ok", "failed", "skipped"}] :
        \A k \in DOMAIN r : (r[k] = "skipped") <=> (\E j \in 1..(k - 1) : r[j] = "failed")}

Request(method, sessionId, operations) ==
    [method |-> method, sessionId |-> sessionId, operations |-> operations]

\* no request handed to the adapter, no input drawn
NoRequest == [method |-> "none", params |-> <<>>]

NoRet == [call |-> "none", status |-> "none", error |-> "", value |-> <<>>]

Resolved(call, value) == [call |-> call, status |-> "resolved", error |-> "", value |-> value]

Rejected(call, error) == [call |-> call, status |-> "rejected", error |-> error, value |-> <<>>]

Pending(call) == [call |-> call, status |-> "pending", error |-> "", value |-> <<>>]

\* get connected()
connected(s) == s /= NoSession

\* get accounts()
accounts(s) == IF s /= NoSession THEN s.accounts ELSE <<>>

\* get permissions()
permissions(s) == IF s /= NoSession THEN s.permissions ELSE <<>>

(***************************************************************************)
(* Session-store core (client.ts): the synchronous steps of its handlers   *)
(* act in sequence on the client's fields, the storage entry and the       *)
(* registries.  threw is set once an exception escapes a step; the steps   *)
(* after it are not executed.                                              *)
(***************************************************************************)
Machine ==
    [session |-> session, storage |-> storage, handlers |-> handlers,
     log |-> <<>>, threw |-> FALSE]

\* this.#session = s
SetSession(m, s) == IF m.threw THEN m ELSE [m EXCEPT !.session = s]

\* localStorage.setItem(`azguard:session:${this.#scope}`, id)
SetItem(m, id) == IF m.threw THEN m ELSE [m EXCEPT !.storage = id]

\* localStorage.removeItem(`azguard:session:${this.#scope}`)
RemoveItem(m) == IF m.threw THEN m ELSE [m EXCEPT !.storage = Null]

\* what a handler of event ev sees when it reads the accessors and the
\* storage entry during its callback
Observation(m, ev, h, payload) ==
    [event |-> ev, handler |-> h, payload |-> payload,
     connected |-> connected(m.session), accounts |-> accounts(m.session),
     permissions |-> permissions(m.session), stored |-> m.storage]

\* this.#on<Event>.dispatch(payload)
Dispatch(m, ev, payload) ==
    IF m.threw THEN m
    ELSE LET r == dispatch(m.handlers[ev])
         IN  [m EXCEPT !.handlers[ev] = Compact(r.handlers),
                       !.log = m.log \o [i \in DOMAIN r.invoked |->
                                   Observation(m, ev, r.invoked[i], payload)],
                       !.threw = r.threw]

\* (x?.length ?? 0)
optLength(x) == IF x.def THEN Len(x.val) ELSE 0

\* y![j]: undefined past the end of the array
optAt(y, j) == IF j \in DOMAIN y.val THEN Some(y.val[j]) ELSE Undefined

\* x?.some((c, j) => c !== y![j]); the callback runs only on a non-empty x,
\* which the length test before it lets through only when y is as long
optSome(x, y) == x.def /\ \E j \in DOMAIN x.val : Some(x.val[j]) /= optAt(y, j)

\* the callback comparing the elements of the fields only, not their lengths
grantChangedNoLength(p, q) ==
    \/ optSome(p.chains, q.chains)
    \/ optSome(p.methods, q.methods)
    \/ optSome(p.events, q.events)

\* the callback of this.permissions.some in #onSessionUpdated
grantChanged(p, q) ==
    \/ optLength(p.chains) /= optLength(q.chains)
    \/ optSome(p.chains, q.chains)
    \/ optLength(p.methods) /= optLength(q.methods)
    \/ optSome(p.methods, q.methods)
    \/ optLength(p.events) /= optLength(q.events)
    \/ optSome(p.events, q.events)

permissionsChanged(old, new) ==
    \/ Len(old) /= Len(new)
    \/ \E i \in DOMAIN old : grantChanged(old[i], new[i])

\* accountsChanged comparing the lengths only
accountsChangedByLength(old, new) == Len(old) /= Len(new)

accountsChanged(old, new) ==
    \/ Len(old) /= Len(new)
    \/ \E i \in DOMAIN old : old[i] /= new[i]

\* #onSessionUpdated
onSessionUpdated(m, s) ==
    LET pc == permissionsChanged(permissions(m.session), s.permissions)
        ac == accountsChanged(accounts(m.session), s.accounts)
        m1 == SetSession(m, s)
        m2 == IF pc THEN Dispatch(m1, "permissionsChanged", permissions(m1.session)) ELSE m1
    IN  IF ac THEN Dispatch(m2, "accountsChanged", accounts(m2.session)) ELSE m2

\* #onSessionClosed clearing the session and the entry before it dispatches
onSessionClosedClearFirst(m) ==
    Dispatch(RemoveItem(SetSession(m, NoSession)), "disconnected", <<>>)

\* #onSessionClosed
onSessionClosed(m) ==
    RemoveItem(SetSession(Dispatch(m, "disconnected", <<>>), NoSession))

\* connect dispatching before it writes the storage entry
connectContinueDispatchFirst(m, s) ==
    SetItem(Dispatch(SetSession(m, s), "connected", <<>>), s.id)

\* connect, from the answer to its request on
connectContinue(m, s) ==
    Dispatch(SetItem(SetSession(m, s), s.id), "connected", <<>>)

\* the fields, the storage entry and the registries after a handler ran
Commit(m) ==
    /\ session' = m.session
    /\ storage' = m.storage
    /\ handlers' = m.handlers
    /\ log' = m.log

\* inflight without its i-th request
Answered(i) == SubSeq(inflight, 1, i - 1) \o SubSeq(inflight, i + 1, Len(inflight))

\* a message of the channel: the answer to a request, or a push
Message(kind, request, value) == [kind |-> kind, request |-> request, value |-> value]

NoMessage == Message("none", Request("none", Null, <<>>), <<>>)

\* a promise resolved with null
NullSession == [null |-> TRUE]

\* timeouts create() is called with
Timeouts == {10}

RegisteredCount == Len(handlers["connected"]) + Len(handlers["disconnected"])
                   + Len(handlers["accountsChanged"]) + Len(handlers["permissionsChanged"])

(***************************************************************************)
(* Specification of one EventHandlers registry on its own                  *)
(***************************************************************************)
ClientIdle ==
    /\ phase = "idle"
    /\ rest = 0
    /\ azguard = NoAzguard
    /\ found = NoAzguard
    /\ warned = FALSE
    /\ subscribed = FALSE
    /\ rpc = FALSE
    /\ session = NoSession
    /\ storage = Null
    /\ handlers = [e \in Events |-> <<>>]
    /\ inflight = <<>>
    /\ sent = <<>>
    /\ ret = NoRet
    /\ received = NoMessage
    /\ log = <<>>
    /\ timeout = 0
    /\ ticks = 0
    /\ timer = FALSE
    /\ closing = {}

InitEH ==
    /\ registry = <<>>
    /\ run = NoRun
    /\ ClientIdle
    /\ arg = NoRequest

EHAddHandler(h) ==
    /\ registry' = addHandler(registry, h)
    /\ run' = NoRun
    /\ UNCHANGED clientVars

EHRemoveHandler(h) ==
    /\ registry' = Compact(removeHandler(registry, h))
    /\ run' = NoRun
    /\ UNCHANGED clientVars

EHDispatch ==
    /\ LET r == dispatch(registry)
       IN  /\ registry' = Compact(r.handlers)
           /\ run' = [start |-> registry, invoked |-> r.invoked,
                      threw |-> r.threw, done |-> r.done]
    /\ UNCHANGED clientVars

NextEH ==
    \/ \E h \in Handlers : EHAddHandler(h)
    \/ \E h \in Handlers : EHRemoveHandler(h)
    \/ EHDispatch

SpecEH == InitEH /\ [][NextEH]_vars

\* C7: dispatch never throws to its caller, and a registry holding only
\* handlers that leave the registry alone, throwing ones included, has each
\* of its handlers invoked exactly once, whatever their order.
DispatchIsolatesFaults ==
    run /= NoRun =>
        /\ ~run.threw
        /\ Range(run.start) \subseteq {"plain", "thrower"} =>
               /\ run.done
               /\ \A h \in Range(run.start) : Count(h, run.invoked) = 1

\* a dispatch over a throwing handler followed by a non-throwing one
DispatchIsolatesFaultsWitness ==
    /\ run /= NoRun
    /\ run.start = <<"thrower", "plain">>
    /\ Count("plain", run.invoked) = 1

\* C8: within one dispatch call no handler is invoked more than once and
\* the call terminates, also when handlers add or remove handlers of the
\* same registry during their callback.
DispatchInvokesAtMostOnce ==
    run /= NoRun =>
        /\ run.done
        /\ \A h \in Handlers : Count(h, run.invoked) <= 1

(***************************************************************************)
(* Specification of one client: create(), the consumer's calls, the        *)
(* channel's answers and pushes                                            *)
(***************************************************************************)
Init ==
    /\ registry = <<>>
    /\ run = NoRun
    /\ phase = "polling"
    /\ timeout \in Timeouts
    /\ rest = timeout
    /\ ticks = 0
    /\ timer = TRUE
    /\ closing = {}
    /\ arg = NoRequest
    /\ azguard \in {NoAzguard} \cup {[present |-> TRUE, version |-> v] : v \in WalletVersions}
    /\ found = NoAzguard
    /\ warned = FALSE
    /\ subscribed = FALSE
    /\ rpc = FALSE
    /\ session = NoSession
    /\ storage \in {Null, "s1"}
    /\ handlers = [e \in Events |-> <<>>]
    /\ inflight = <<>>
    /\ sent = <<>>
    /\ ret = Pending("create")
    /\ received = NoMessage
    /\ log = <<>>

\* the content script defines window.azguard, during the poll or after it
AzguardAppears(v) ==
    /\ ~azguard.present
    /\ azguard' = [present |-> TRUE, version |-> v]
    /\ UNCHANGED <<frame, phase, rest, found, warned, subscribed, rpc, session,
                   storage, handlers, inflight, sent, ret, received, log>>

\* getAzguardObject testing rest === 0 in place of rest <= 0
TickExactZero ==
    /\ phase = "polling"
    /\ timer
    /\ rest' = rest - 10
    /\ ticks' = ticks + 1
    /\ IF azguard.present
       THEN timer' = FALSE /\ found' = azguard /\ phase' = "resolved"
       ELSE IF rest' = 0
       THEN timer' = FALSE /\ found' = NoAzguard /\ phase' = "resolved"
       ELSE UNCHANGED <<timer, found, phase>>
    /\ UNCHANGED <<registry, run, closing, timeout, arg, azguard, warned, subscribed, rpc,
                   session, storage, handlers, inflight, sent, ret, received, log>>

\* getAzguardObject testing rest < 0 in place of rest <= 0
TickStrict ==
    /\ phase = "polling"
    /\ timer
    /\ rest' = rest - 10
    /\ ticks' = ticks + 1
    /\ IF azguard.present
       THEN timer' = FALSE /\ found' = azguard /\ phase' = "resolved"
       ELSE IF rest' < 0
       THEN timer' = FALSE /\ found' = NoAzguard /\ phase' = "resolved"
       ELSE UNCHANGED <<timer, found, phase>>
    /\ UNCHANGED <<registry, run, closing, timeout, arg, azguard, warned, subscribed, rpc,
                   session, storage, handlers, inflight, sent, ret, received, log>>

\* getAzguardObject testing the remaining time before window.azguard
TickTimeoutFirst ==
    /\ phase = "polling"
    /\ timer
    /\ rest' = rest - 10
    /\ ticks' = ticks + 1
    /\ IF rest' <= 0
       THEN timer' = FALSE /\ found' = NoAzguard /\ phase' = "resolved"
       ELSE IF azguard.present
       THEN timer' = FALSE /\ found' = azguard /\ phase' = "resolved"
       ELSE UNCHANGED <<timer, found, phase>>
    /\ UNCHANGED <<registry, run, closing, timeout, arg, azguard, warned, subscribed, rpc,
                   session, storage, handlers, inflight, sent, ret, received, log>>

\* getAzguardObject: one run of the setInterval callback
Tick ==
    /\ phase = "polling"
    /\ timer
    /\ rest' = rest - 10
    /\ ticks' = ticks + 1
    /\ IF azguard.present
       THEN timer' = FALSE /\ found' = azguard /\ phase' = "resolved"
       ELSE IF rest' <= 0
       THEN timer' = FALSE /\ found' = NoAzguard /\ phase' = "resolved"
       ELSE UNCHANGED <<timer, found, phase>>
    /\ UNCHANGED <<registry, run, closing, timeout, arg, azguard, warned, subscribed, rpc,
                   session, storage, handlers, inflight, sent, ret, received, log>>

\* #init from the resolution of getAzguardObject to its await of get_session,
\* or to its end
InitContinue ==
    /\ phase = "resolved"
    /\ ret.call = "create"
    /\ IF found.present
       THEN /\ warned' = ~isCompatible(found.version)
            /\ subscribed' = TRUE
            /\ IF storage /= Null
               THEN /\ inflight' = <<Request("get_session", storage, <<>>)>>
                    /\ sent' = <<Request("get_session", storage, <<>>)>>
                    /\ phase' = "restoring"
                    /\ ret' = Pending("create")
                    /\ UNCHANGED <<rpc, session>>
               ELSE /\ rpc' = TRUE
                    /\ session' = NoSession
                    /\ phase' = "ready"
                    /\ ret' = Resolved("create", <<>>)
                    /\ sent' = <<>>
                    /\ UNCHANGED inflight
       ELSE /\ phase' = "ready"
            /\ ret' = Resolved("create", <<>>)
            /\ sent' = <<>>
            /\ UNCHANGED <<warned, subscribed, rpc, session, inflight>>
    /\ received' = NoMessage
    /\ log' = <<>>
    /\ UNCHANGED <<frame, rest, azguard, found, storage, handlers>>

\* #init binding the channel only when get_session answers with a session
GetSessionResponseBindOnSession(i, resp) ==
    /\ phase = "restoring"
    /\ inflight[i].method = "get_session"
    /\ resp \in {NullSession} \cup {s \in Sessions : s.id = inflight[i].sessionId}
    /\ rpc' = (resp /= NullSession)
    /\ session' = IF resp = NullSession THEN session ELSE resp
    /\ phase' = "ready"
    /\ ret' = Resolved("create", <<>>)
    /\ received' = Message("response", inflight[i], resp)
    /\ inflight' = Answered(i)
    /\ sent' = <<>>
    /\ log' = <<>>
    /\ UNCHANGED <<frame, rest, azguard, found, warned, subscribed, storage, handlers>>

\* #init leaving #rpc unassigned after get_session
GetSessionResponseNoBind(i, resp) ==
    /\ phase = "restoring"
    /\ inflight[i].method = "get_session"
    /\ resp \in {NullSession} \cup {s \in Sessions : s.id = inflight[i].sessionId}
    /\ session' = IF resp = NullSession THEN NoSession ELSE resp
    /\ phase' = "ready"
    /\ ret' = Resolved("create", <<>>)
    /\ received' = Message("response", inflight[i], resp)
    /\ inflight' = Answered(i)
    /\ sent' = <<>>
    /\ log' = <<>>
    /\ UNCHANGED <<frame, rest, azguard, found, warned, subscribed, rpc, storage, handlers>>

\* #init from the answer to get_session on
GetSessionResponse(i, resp) ==
    /\ phase = "restoring"
    /\ inflight[i].method = "get_session"
    /\ resp \in {NullSession} \cup {s \in Sessions : s.id = inflight[i].sessionId}
    /\ rpc' = TRUE
    /\ session' = IF resp = NullSession THEN NoSession ELSE resp
    /\ phase' = "ready"
    /\ ret' = Resolved("create", <<>>)
    /\ received' = Message("response", inflight[i], resp)
    /\ inflight' = Answered(i)
    /\ sent' = <<>>
    /\ log' = <<>>
    /\ UNCHANGED <<frame, rest, azguard, found, warned, subscribed, storage, handlers>>

connect ==
    /\ phase = "ready"
    /\ IF ~rpc
       THEN /\ ret' = Rejected("connect", "NotInstalled")
            /\ sent' = <<>>
            /\ UNCHANGED inflight
       ELSE /\ Len(inflight) < MaxInflight
            /\ inflight' = Append(inflight, Request("connect", Null, <<>>))
            /\ sent' = <<Request("connect", Null, <<>>)>>
            /\ ret' = Pending("connect")
    /\ received' = NoMessage
    /\ log' = <<>>
    /\ UNCHANGED <<frame, phase, rest, azguard, found, warned, subscribed, rpc,
                   session, storage, handlers>>

\* connect from the answer to its request on
ConnectResponse(i, s) ==
    /\ inflight[i].method = "connect"
    /\ LET m == connectContinue(Machine, s)
       IN  /\ Commit(m)
           /\ ret' = IF m.threw THEN Rejected("connect", "HandlerError")
                                ELSE Resolved("connect", <<>>)
    /\ received' = Message("response", inflight[i], s)
    /\ inflight' = Answered(i)
    /\ sent' = <<>>
    /\ UNCHANGED <<frame, phase, rest, azguard, found, warned, subscribed, rpc>>

disconnect ==
    /\ phase = "ready"
    /\ IF session = NoSession
       THEN /\ ret' = Resolved("disconnect", <<>>)
            /\ sent' = <<>>
            /\ UNCHANGED inflight
       ELSE IF ~rpc
       THEN /\ ret' = Rejected("disconnect", "TypeError")
            /\ sent' = <<>>
            /\ UNCHANGED inflight
       ELSE /\ Len(inflight) < MaxInflight
            /\ inflight' = Append(inflight, Request("close_session", session.id, <<>>))
            /\ sent' = <<Request("close_session", session.id, <<>>)>>
            /\ ret' = Pending("disconnect")
    /\ received' = NoMessage
    /\ log' = <<>>
    /\ UNCHANGED <<frame, phase, rest, azguard, found, warned, subscribed, rpc,
                   session, storage, handlers>>

\* disconnect clearing the session itself once close_session is answered
CloseSessionResponseClears(i) ==
    /\ inflight[i].method = "close_session"
    /\ Commit(RemoveItem(SetSession(Machine, NoSession)))
    /\ ret' = Resolved("disconnect", <<>>)
    /\ received' = Message("response", inflight[i], <<>>)
    /\ inflight' = Answered(i)
    /\ sent' = <<>>
    /\ UNCHANGED <<frame, phase, rest, azguard, found, warned, subscribed, rpc>>

\* disconnect from the answer to its request on
CloseSessionResponse(i) ==
    /\ inflight[i].method = "close_session"
    /\ ret' = Resolved("disconnect", <<>>)
    /\ received' = Message("response", inflight[i], <<>>)
    /\ inflight' = Answered(i)
    /\ sent' = <<>>
    /\ log' = <<>>
    /\ UNCHANGED <<frame, phase, rest, azguard, found, warned, subscribed, rpc,
                   session, storage, handlers>>

\* execute without its test of this.#session: reading the id throws
executeUnchecked(operations) ==
    /\ phase = "ready"
    /\ IF ~rpc
       THEN /\ ret' = Rejected("execute", "NotInstalled")
            /\ sent' = <<>>
            /\ UNCHANGED inflight
       ELSE IF session = NoSession
       THEN /\ ret' = Rejected("execute", "TypeError")
            /\ sent' = <<>>
            /\ UNCHANGED inflight
       ELSE /\ Len(inflight) < MaxInflight
            /\ inflight' = Append(inflight, Request("execute", session.id, operations))
            /\ sent' = <<Request("execute", session.id, operations)>>
            /\ ret' = [Pending("execute") EXCEPT !.value = operations]
    /\ received' = NoMessage
    /\ log' = <<>>
    /\ UNCHANGED <<frame, phase, rest, azguard, found, warned, subscribed, rpc,
                   session, storage, handlers>>

execute(operations) ==
    /\ phase = "ready"
    /\ IF ~rpc
       THEN /\ ret' = Rejected("execute", "NotInstalled")
            /\ sent' = <<>>
            /\ UNCHANGED inflight
       ELSE IF session = NoSession
       THEN /\ ret' = Rejected("execute", "NotConnected")
            /\ sent' = <<>>
            /\ UNCHANGED inflight
       ELSE /\ Len(inflight) < MaxInflight
            /\ inflight' = Append(inflight, Request("execute", session.id, operations))
            /\ sent' = <<Request("execute", session.id, operations)>>
            /\ ret' = [Pending("execute") EXCEPT !.value = operations]
    /\ received' = NoMessage
    /\ log' = <<>>
    /\ UNCHANGED <<frame, phase, rest, azguard, found, warned, subscribed, rpc,
                   session, storage, handlers>>

\* execute returning the first result only
ExecuteResponseFirstOnly(i, results) ==
    /\ inflight[i].method = "execute"
    /\ ret' = Resolved("execute", SubSeq(results, 1, 1))
    /\ received' = Message("response", inflight[i], results)
    /\ inflight' = Answered(i)
    /\ sent' = <<>>
    /\ log' = <<>>
    /\ UNCHANGED <<frame, phase, rest, azguard, found, warned, subscribed, rpc,
                   session, storage, handlers>>

\* execute from the answer to its request on
ExecuteResponse(i, results) ==
    /\ inflight[i].method = "execute"
    /\ ret' = Resolved("execute", results)
    /\ received' = Message("response", inflight[i], results)
    /\ inflight' = Answered(i)
    /\ sent' = <<>>
    /\ log' = <<>>
    /\ UNCHANGED <<frame, phase, rest, azguard, found, warned, subscribed, rpc,
                   session, storage, handlers>>

\* getWalletInfo returning nothing when no channel is bound
getWalletInfoSilent ==
    /\ phase = "ready"
    /\ IF ~rpc
       THEN /\ ret' = Resolved("getWalletInfo", <<>>)
            /\ sent' = <<>>
            /\ UNCHANGED inflight
       ELSE /\ Len(inflight) < MaxInflight
            /\ inflight' = Append(inflight, Request("get_wallet_info", Null, <<>>))
            /\ sent' = <<Request("get_wallet_info", Null, <<>>)>>
            /\ ret' = Pending("getWalletInfo")
    /\ received' = NoMessage
    /\ log' = <<>>
    /\ UNCHANGED <<frame, phase, rest, azguard, found, warned, subscribed, rpc,
                   session, storage, handlers>>

getWalletInfo ==
    /\ phase = "ready"
    /\ IF ~rpc
       THEN /\ ret' = Rejected("getWalletInfo", "NotInstalled")
            /\ sent' = <<>>
            /\ UNCHANGED inflight
       ELSE /\ Len(inflight) < MaxInflight
            /\ inflight' = Append(inflight, Request("get_wallet_info", Null, <<>>))
            /\ sent' = <<Request("get_wallet_info", Null, <<>>)>>
            /\ ret' = Pending("getWalletInfo")
    /\ received' = NoMessage
    /\ log' = <<>>
    /\ UNCHANGED <<frame, phase, rest, azguard, found, warned, subscribed, rpc,
                   session, storage, handlers>>

\* getWalletInfo from the answer to its request on
WalletInfoResponse(i) ==
    /\ inflight[i].method = "get_wallet_info"
    /\ ret' = Resolved("getWalletInfo", <<"info">>)
    /\ received' = Message("response", inflight[i], <<"info">>)
    /\ inflight' = Answered(i)
    /\ sent' = <<>>
    /\ log' = <<>>
    /\ UNCHANGED <<frame, phase, rest, azguard, found, warned, subscribed, rpc,
                   session, storage, handlers>>

\* the call whose await a request of this method is
CallOf(method) ==
    CASE method = "get_session"     -> "create"
      [] method = "connect"         -> "connect"
      [] method = "close_session"   -> "disconnect"
      [] method = "execute"         -> "execute"
      [] method = "get_wallet_info" -> "getWalletInfo"

\* a rejected request sent again instead of failing its caller
RequestRejectedRetry(i) ==
    /\ ret' = Pending(CallOf(inflight[i].method))
    /\ phase' = phase
    /\ received' = Message("rejection", inflight[i], <<>>)
    /\ inflight' = inflight
    /\ sent' = <<inflight[i]>>
    /\ log' = <<>>
    /\ UNCHANGED <<frame, rest, azguard, found, warned, subscribed, rpc,
                   session, storage, handlers>>

\* the channel rejects a request: the await throws, the call rejects
RequestRejected(i) ==
    /\ ret' = Rejected(CallOf(inflight[i].method), "ChannelError")
    /\ phase' = IF inflight[i].method = "get_session" THEN "failed" ELSE phase
    /\ received' = Message("rejection", inflight[i], <<>>)
    /\ inflight' = Answered(i)
    /\ sent' = <<>>
    /\ log' = <<>>
    /\ UNCHANGED <<frame, rest, azguard, found, warned, subscribed, rpc,
                   session, storage, handlers>>

\* the channel pushes session_updated(s)
PushSessionUpdated(s) ==
    /\ subscribed
    /\ Commit(onSessionUpdated(Machine, s))
    /\ received' = Message("session_updated", Request("none", Null, <<>>), s)
    /\ ret' = NoRet
    /\ sent' = <<>>
    /\ arg' = NoRequest
    /\ UNCHANGED <<registry, run, closing, timeout, ticks, timer, phase, rest, azguard,
                   found, warned, subscribed, rpc, inflight>>

\* the channel pushes session_closed()
PushSessionClosed ==
    /\ subscribed
    /\ Commit(onSessionClosed(Machine))
    /\ received' = Message("session_closed", Request("none", Null, <<>>), <<>>)
    /\ ret' = NoRet
    /\ sent' = <<>>
    /\ arg' = NoRequest
    /\ UNCHANGED <<registry, run, closing, timeout, ticks, timer, phase, rest, azguard,
                   found, warned, subscribed, rpc, inflight>>

\* client.on<Event>.addHandler(h)
AddHandler(ev, h) ==
    /\ phase = "ready"
    /\ h \notin Range(handlers[ev])
    /\ RegisteredCount < MaxHandlers
    /\ handlers' = [handlers EXCEPT ![ev] = addHandler(@, h)]
    /\ received' = NoMessage
    /\ ret' = NoRet
    /\ sent' = <<>>
    /\ log' = <<>>
    /\ UNCHANGED <<frame, phase, rest, azguard, found, warned, subscribed, rpc,
                   session, storage, inflight>>

\* client.on<Event>.removeHandler(h)
RemoveHandler(ev, h) ==
    /\ phase = "ready"
    /\ h \in Range(handlers[ev])
    /\ handlers' = [handlers EXCEPT ![ev] = Compact(removeHandler(@, h))]
    /\ received' = NoMessage
    /\ ret' = NoRet
    /\ sent' = <<>>
    /\ log' = <<>>
    /\ UNCHANGED <<frame, phase, rest, azguard, found, warned, subscribed, rpc,
                   session, storage, inflight>>

Next ==
    \/ \E v \in WalletVersions : AzguardAppears(v)
    \/ Tick
    \/ InitContinue
    \/ \E i \in DOMAIN inflight : \E resp \in {NullSession} \cup Sessions : GetSessionResponse(i, resp)
    \/ connect
    \/ \E i \in DOMAIN inflight : \E s \in Sessions : ConnectResponse(i, s)
    \/ disconnect
    \/ \E i \in DOMAIN inflight : CloseSessionResponse(i)
    \/ \E operations \in Batches : execute(operations)
    \/ \E i \in DOMAIN inflight : \E results \in ChannelResults(inflight[i].operations) : ExecuteResponse(i, results)
    \/ getWalletInfo
    \/ \E i \in DOMAIN inflight : WalletInfoResponse(i)
    \/ \E i \in DOMAIN inflight : RequestRejected(i)
    \/ \E s \in Sessions : PushSessionUpdated(s)
    \/ PushSessionClosed
    \/ \E ev \in Events : \E h \in ClientHandlers : AddHandler(ev, h)
    \/ \E ev \in Events : \E h \in ClientHandlers : RemoveHandler(ev, h)

Spec == Init /\ [][Next]_vars

(***************************************************************************)
(* Properties of the client                                                *)
(***************************************************************************)
\* the entries of the log that handlers of event ev wrote
LogOf(l, ev) == SelectSeq(l, LAMBDA e : e.event = ev)

\* C1: on a session_closed push every disconnected handler runs once and
\* sees the accessors and the storage entry as they were before the push
\* (connected when a session was held, the entry still stored); after the
\* push the session is cleared and the storage entry removed.
SessionClosedOrder ==
    [][received'.kind = "session_closed" =>
          /\ session' = NoSession
          /\ storage' = Null
          /\ Len(log') = Len(handlers["disconnected"])
          /\ \A k \in DOMAIN log' :
                /\ log'[k].event = "disconnected"
                /\ log'[k].handler = handlers["disconnected"][k]
                /\ log'[k].connected = connected(session)
                /\ log'[k].accounts = accounts(session)
                /\ log'[k].stored = storage]_vars

\* a session_closed push on a connected client with a disconnected handler
SessionClosedOrderWitness ==
    /\ received.kind = "session_closed"
    /\ Len(log) = 1
    /\ log[1].connected
    /\ log[1].stored /= Null
    /\ session = NoSession
    /\ storage = Null

\* C2: disconnect() without a session sends nothing and resolves; with a
\* session it sends one close_session request with the session's id; the
\* call and the answer to it leave the session, the storage entry and the
\* registries alone and dispatch nothing; a client that create() returned
\* stops being connected only in a session_closed push.
DisconnectLeavesState ==
    [][/\ ret'.call = "disconnect" =>
             /\ session' = session
             /\ storage' = storage
             /\ handlers' = handlers
             /\ log' = <<>>
             /\ received'.kind = "none" /\ session = NoSession =>
                    ret' = Resolved("disconnect", <<>>) /\ sent' = <<>> /\ inflight' = inflight
             /\ received'.kind = "none" /\ session /= NoSession /\ rpc =>
                    /\ ret'.status = "pending"
                    /\ sent' = <<Request("close_session", session.id, <<>>)>>
                    /\ inflight' = inflight \o sent'
             /\ received'.kind = "response" =>
                    ret' = Resolved("disconnect", <<>>) /\ sent' = <<>>
       /\ phase = "ready" /\ connected(session) /\ ~connected(session') =>
             received'.kind = "session_closed"]_vars

\* disconnect() has resolved and the client is still connected
DisconnectLeavesStateWitness ==
    /\ ret = Resolved("disconnect", <<>>)
    /\ received.kind = "response"
    /\ received.request.method = "close_session"
    /\ connected(session)
    /\ storage = session.id

\* C3: execute() rejects with "not installed" without a channel, else with
\* "not connected" without a session; a rejected call has sent nothing and
\* has left the session, the storage entry and the registries alone.
ExecuteGuards ==
    [][ret'.call = "execute" /\ received'.kind = "none" =>
          /\ ~rpc => ret' = Rejected("execute", "NotInstalled")
          /\ rpc /\ session = NoSession => ret' = Rejected("execute", "NotConnected")
          /\ ret'.status = "rejected" =>
                /\ sent' = <<>>
                /\ inflight' = inflight
                /\ session' = session
                /\ storage' = storage
                /\ handlers' = handlers
                /\ log' = <<>>]_vars

\* execute() rejected on a client with a channel and no session
ExecuteGuardsWitness ==
    /\ ret = Rejected("execute", "NotConnected")
    /\ rpc
    /\ session = NoSession
    /\ inflight = <<>>

\* C4: when a connect request is answered with a session, the client holds
\* that session, the storage entry is its id, connect() resolves, and every
\* connected handler ran once and saw the client connected with the new
\* accounts and permissions and the new id stored.
ConnectOrder ==
    received.kind = "response" /\ received.request.method = "connect" =>
        /\ session = received.value
        /\ storage = received.value.id
        /\ ret = Resolved("connect", <<>>)
        /\ Len(log) = Len(handlers["connected"])
        /\ \A k \in DOMAIN log :
              /\ log[k].event = "connected"
              /\ log[k].handler = handlers["connected"][k]
              /\ log[k].connected
              /\ log[k].accounts = received.value.accounts
              /\ log[k].permissions = received.value.permissions
              /\ log[k].stored = received.value.id

\* a connect request answered on a client with a connected handler
ConnectOrderWitness ==
    /\ received.kind = "response"
    /\ received.request.method = "connect"
    /\ Len(log) = 1
    /\ log[1].stored = session.id
    /\ log[1].accounts = session.accounts

\* a permission list with its absent fields read as empty lists
Listed(perms) ==
    [k \in DOMAIN perms |-> [chains |-> perms[k].chains.val,
                             methods |-> perms[k].methods.val,
                             events |-> perms[k].events.val]]

\* C5: a session_updated push replaces the session by the pushed one; the
\* accountsChanged handlers run, once each, exactly when the account lists
\* differ, the permissionsChanged handlers exactly when the permission
\* lists differ (an absent field being an empty list); the handlers get the
\* new list and read the new session from the accessors.
SessionUpdatedEvents ==
    [][received'.kind = "session_updated" =>
          LET new == received'.value
              acc == LogOf(log', "accountsChanged")
              per == LogOf(log', "permissionsChanged")
          IN  /\ session' = new
              /\ Len(log') = Len(acc) + Len(per)
              /\ Len(acc) = IF accounts(session) /= new.accounts
                            THEN Len(handlers["accountsChanged"]) ELSE 0
              /\ Len(per) = IF Listed(permissions(session)) /= Listed(new.permissions)
                            THEN Len(handlers["permissionsChanged"]) ELSE 0
              /\ \A k \in DOMAIN acc :
                    /\ acc[k].handler = handlers["accountsChanged"][k]
                    /\ acc[k].payload = new.accounts
              /\ \A k \in DOMAIN per :
                    /\ per[k].handler = handlers["permissionsChanged"][k]
                    /\ per[k].payload = new.permissions
              /\ \A k \in DOMAIN log' :
                    /\ log'[k].connected
                    /\ log'[k].accounts = new.accounts
                    /\ log'[k].permissions = new.permissions]_vars

\* a session_updated push that changed the accounts of a held session
SessionUpdatedEventsWitness ==
    /\ received.kind = "session_updated"
    /\ session = received.value
    /\ Len(log) = 1
    /\ log[1].event = "accountsChanged"
    /\ log[1].payload = session.accounts
    /\ Len(session.accounts) = 2

\* C6: a client that create() returned without finding window.azguard never
\* has a channel or a session, has nothing in flight, and its connect,
\* execute and getWalletInfo calls reject with "not installed".
NotInstalledForever ==
    phase = "ready" /\ ~found.present =>
        /\ ~rpc
        /\ ~subscribed
        /\ session = NoSession
        /\ accounts(session) = <<>>
        /\ permissions(session) = <<>>
        /\ inflight = <<>>
        /\ sent = <<>>
        /\ ret.call \in {"connect", "execute", "getWalletInfo"} =>
               ret = Rejected(ret.call, "NotInstalled")

\* getWalletInfo() was called on a client created without the extension
NotInstalledForeverWitness ==
    /\ phase = "ready"
    /\ ~found.present
    /\ ret = Rejected("getWalletInfo", "NotInstalled")

\* C9: execute() on a connected client sends one execute request with the
\* session's id and the batch it was given; it resolves with the result
\* list of the channel, which has one result per operation and only
\* skipped results after a failed one.
ExecutePassesThrough ==
    /\ ret.call = "execute" /\ ret.status = "pending" =>
          /\ rpc
          /\ session /= NoSession
          /\ sent = <<Request("execute", session.id, ret.value)>>
          /\ ret.value \in Batches
    /\ received.kind = "response" /\ received.request.method = "execute" =>
          /\ ret = Resolved("execute", received.value)
          /\ Len(ret.value) = Len(received.request.operations)
          /\ \A k \in DOMAIN ret.value :
                (\E j \in 1..(k - 1) : ret.value[j] = "failed") => ret.value[k] = "skipped"

\* execute() resolved with a failed result followed by a skipped one
ExecutePassesThroughWitness ==
    /\ received.kind = "response"
    /\ received.request.method = "execute"
    /\ ret.status = "resolved"
    /\ ret.value = <<"failed", "skipped">>

\* C10: when create() resolves on a page with the extension, the channel is
\* bound and subscribed, whatever version the extension reports; without a
\* stored id no get_session request was sent and there is no session; with
\* one, the session is the one get_session answered with, or none when it
\* answered null.
CreateRestores ==
    /\ ret = Resolved("create", <<>>) /\ found.present =>
          /\ phase = "ready"
          /\ rpc
          /\ subscribed
          /\ warned = ~isCompatible(found.version)
          /\ inflight = <<>>
          /\ received.kind = "none" => session = NoSession /\ storage = Null /\ sent = <<>>
          /\ received.kind /= "none" =>
                /\ received.kind = "response"
                /\ received.request.method = "get_session"
                /\ received.request.sessionId \in SessionIds
                /\ session = IF received.value = NullSession THEN NoSession ELSE received.value
    /\ phase = "restoring" => inflight = <<Request("get_session", inflight[1].sessionId, <<>>)>>
    /\ sent /= <<>> /\ sent[1].method = "get_session" => sent[1].sessionId = storage

\* create() restored a session from an extension of another version
CreateRestoresWitness ==
    /\ ret = Resolved("create", <<>>)
    /\ warned
    /\ rpc
    /\ received.kind = "response"
    /\ connected(session)
    /\ session = received.value

\* C19: when the channel rejects a connect request, connect() rejects with
\* the channel's error; the session, the stored id, the registries and the
\* channel binding stay as they were, no handler runs, no request is sent
\* and the rejected request is no longer in flight.
ConnectRejectionSurfaced ==
    [][received'.kind = "rejection" /\ received'.request.method = "connect" =>
          /\ ret' = Rejected("connect", "ChannelError")
          /\ UNCHANGED <<session, storage, handlers, registry, rpc, subscribed, phase>>
          /\ log' = <<>>
          /\ sent' = <<>>
          /\ \E k \in DOMAIN inflight :
                /\ inflight[k] = received'.request
                /\ inflight' = SubSeq(inflight, 1, k - 1)
                                   \o SubSeq(inflight, k + 1, Len(inflight))]_vars

\* a connect request rejected while the client holds a session and a
\* connected handler is registered
ConnectRejectionSurfacedWitness ==
    /\ received.kind = "rejection"
    /\ received.request.method = "connect"
    /\ ret = Rejected("connect", "ChannelError")
    /\ connected(session)
    /\ storage = session.id
    /\ handlers["connected"] /= <<>>

\* C20: once create() has resolved, a held session comes with a bound
\* channel; disconnect() never fails on an unbound channel and a
\* close_session request is only ever in flight on a bound one.
HeldSessionHasChannel ==
    /\ phase = "ready" /\ session /= NoSession => rpc
    /\ ret /= Rejected("disconnect", "TypeError")
    /\ \A k \in DOMAIN inflight : inflight[k].method = "close_session" => rpc
    /\ sent /= <<>> /\ sent[1].method = "close_session" => rpc /\ sent[1].sessionId = session.id

\* disconnect() of a restored session has sent close_session
HeldSessionHasChannelWitness ==
    /\ phase = "ready"
    /\ connected(session)
    /\ rpc
    /\ storage = session.id
    /\ ret = Pending("disconnect")
    /\ sent = <<Request("close_session", session.id, <<>>)>>

(***************************************************************************)
(* Specification of the install detection: getAzguardObject called by      *)
(* create(), isAzguardInstalled() or isAzguardInstalledAndCompatible()     *)
(* with any timeout, the extension injecting window.azguard at any moment  *)
(***************************************************************************)
MaxTimeout == 30

PollTimeouts == (0 - MaxTimeout)..MaxTimeout

PollCallers == {"create", "isAzguardInstalled", "isAzguardInstalledAndCompatible"}

\* isAzguardInstalled from the resolution of getAzguardObject
isAzguardInstalled ==
    /\ phase = "resolved"
    /\ ret.call = "isAzguardInstalled"
    /\ ret' = Resolved("isAzguardInstalled", <<found.present>>)
    /\ phase' = "returned"
    /\ sent' = <<>>
    /\ received' = NoMessage
    /\ log' = <<>>
    /\ UNCHANGED <<frame, rest, azguard, found, warned, subscribed, rpc, session,
                   storage, handlers, inflight>>

\* isAzguardInstalledAndCompatible from the resolution of getAzguardObject
isAzguardInstalledAndCompatible ==
    /\ phase = "resolved"
    /\ ret.call = "isAzguardInstalledAndCompatible"
    /\ ret' = Resolved("isAzguardInstalledAndCompatible",
                       <<found.present /\ isCompatible(found.version)>>)
    /\ phase' = "returned"
    /\ sent' = <<>>
    /\ received' = NoMessage
    /\ log' = <<>>
    /\ UNCHANGED <<frame, rest, azguard, found, warned, subscribed, rpc, session,
                   storage, handlers, inflight>>

InitPoll ==
    /\ registry = <<>>
    /\ run = NoRun
    /\ phase = "polling"
    /\ timeout \in PollTimeouts
    /\ rest = timeout
    /\ ticks = 0
    /\ timer = TRUE
    /\ closing = {}
    /\ arg = NoRequest
    /\ azguard \in {NoAzguard} \cup {[present |-> TRUE, version |-> v] : v \in WalletVersions}
    /\ found = NoAzguard
    /\ warned = FALSE
    /\ subscribed = FALSE
    /\ rpc = FALSE
    /\ session = NoSession
    /\ storage = Null
    /\ handlers = [e \in Events |-> <<>>]
    /\ inflight = <<>>
    /\ sent = <<>>
    /\ ret \in {Pending(c) : c \in PollCallers}
    /\ received = NoMessage
    /\ log = <<>>

NextPoll ==
    \/ \E v \in WalletVersions : AzguardAppears(v)
    \/ Tick
    \/ InitContinue
    \/ isAzguardInstalled
    \/ isAzguardInstalledAndCompatible

SpecPoll == InitPoll /\ [][NextPoll]_vars

\* the number of the tick at which a poll that never sees the object ends
TickBound(t) == IF t <= 0 THEN 1 ELSE (t + 9) \div 10

\* C11: for every integer timeout and every moment at which the object
\* appears, getAzguardObject resolves after a bounded number of ticks (while
\* it has not resolved its timer is set, a tick can run and fewer ticks than
\* the bound have run) and once resolved its timer is cleared; with timeout 20
\* and no object it resolves absent after at least 2 and at most 4 ticks.
PollResolves ==
    /\ ticks <= TickBound(timeout)
    /\ phase = "polling" => timer /\ ticks < TickBound(timeout) /\ ENABLED Tick
    /\ phase /= "polling" => ~timer /\ ticks >= 1 /\ ~ENABLED Tick
    /\ timeout = 20 /\ phase /= "polling" /\ ~found.present => ticks >= 2 /\ ticks <= 4

\* timeout 20, the object never there: resolved absent at the second tick
PollResolvesWitness ==
    /\ timeout = 20
    /\ phase = "resolved"
    /\ ~found.present
    /\ ~azguard.present
    /\ ticks = 2
    /\ ~timer

\* C12 as stated: without the object a poll of timeout t > 0 resolves absent
\* at tick number floor(t / 10).
PollRoundsDown ==
    timeout > 0 /\ phase /= "polling" /\ ~found.present => ticks = timeout \div 10

\* C12: without the object a poll of timeout t > 0 resolves absent at tick
\* number ceiling(t / 10): the effective timeout is the requested one rounded
\* up to the next multiple of the tick.
PollRoundsUp ==
    timeout > 0 /\ phase /= "polling" /\ ~found.present => ticks = (timeout + 9) \div 10

\* timeout 25, the object never there: resolved absent at the third tick
PollRoundsUpWitness ==
    /\ timeout = 25
    /\ phase = "resolved"
    /\ ~found.present
    /\ ~azguard.present
    /\ ticks = 3
    /\ rest = 0 - 5

\* C13 as stated: with a timeout of 0 or less the poll resolves on the first
\* tick, never runs a second and resolves absent, isAzguardInstalled returns
\* false and create binds no channel, whether or not the object is there.
NonPositiveTimeoutAbsent ==
    timeout <= 0 /\ phase /= "polling" =>
        /\ ticks = 1
        /\ ~timer
        /\ ~found.present
        /\ ~rpc
        /\ ret.status = "resolved" /\ ret.call /= "create" => ret.value = <<FALSE>>

\* C13: with a timeout of 0 or less the poll resolves on the first tick and
\* never runs a second; it resolves with what window.azguard holds at that
\* tick, absent only when the object is absent; isAzguardInstalled returns
\* whether the object was there and create binds the channel when it was.
NonPositiveTimeoutFirstTick ==
    [][timeout <= 0 =>
          /\ ticks' <= 1
          /\ phase = "polling" /\ phase' /= "polling" =>
                ticks' = 1 /\ ~timer' /\ found' = azguard
          /\ ret'.status = "resolved" /\ ret'.call = "isAzguardInstalled" =>
                ret'.value = <<found.present>>
          /\ ret'.status = "resolved" /\ ret'.call = "create" => rpc' = found.present]_vars

\* timeout 0 with the extension already there: create() binds the channel
NonPositiveTimeoutFirstTickWitness ==
    /\ timeout <= 0
    /\ ticks = 1
    /\ ~timer
    /\ found.present
    /\ ret = Resolved("create", <<>>)
    /\ rpc

(***************************************************************************)
(* Specification of the permission comparison of #onSessionUpdated, on     *)
(* pairs of permission lists with absent, empty and filled fields          *)
(***************************************************************************)
MaxItems == 2

MaxGrants == 2

Items == {"x", "y"}

\* the chains, methods or events of a grant: absent, or a list of items
FieldValues ==
    {Undefined} \cup
    {Some(s) : s \in {t \in UNION {[1..n -> Items] : n \in 0..MaxItems} :
                         Cardinality({j \in DOMAIN t : t[j] = "y"}) <= 1}}

\* grants with one field set
Grants ==
    {[chains |-> v, methods |-> Undefined, events |-> Undefined] : v \in FieldValues}
    \cup {[chains |-> Undefined, methods |-> v, events |-> Undefined] : v \in FieldValues}
    \cup {[chains |-> Undefined, methods |-> Undefined, events |-> v] : v \in FieldValues}

PermissionLists == UNION {[1..n -> Grants] : n \in 0..MaxGrants}

\* the lists a session_updated push may carry when the client holds old:
\* old with one grant replaced, with one grant more, or a prefix of it
PushedLists(old) ==
    {[old EXCEPT ![i] = g] : i \in DOMAIN old, g \in Grants}
    \cup {SubSeq(old, 1, n) : n \in 0..Len(old)}
    \cup {Append(old, g) : g \in {h \in Grants : Len(old) < MaxGrants}}

\* x?.some((c, j) => c !== y![j]) fails: the callback runs on an absent y
optSomeThrows(x, y) == x.def /\ x.val /= <<>> /\ ~y.def

\* the callback of this.permissions.some fails, its tests taken in order
grantThrows(p, q) ==
    IF optLength(p.chains) /= optLength(q.chains) THEN FALSE
    ELSE IF optSomeThrows(p.chains, q.chains) THEN TRUE
    ELSE IF optSome(p.chains, q.chains) THEN FALSE
    ELSE IF optLength(p.methods) /= optLength(q.methods) THEN FALSE
    ELSE IF optSomeThrows(p.methods, q.methods) THEN TRUE
    ELSE IF optSome(p.methods, q.methods) THEN FALSE
    ELSE IF optLength(p.events) /= optLength(q.events) THEN FALSE
    ELSE optSomeThrows(p.events, q.events)

\* the computation of permissionsChanged fails: at the first grant whose
\* callback fails, the grants before it having compared equal
permissionsChangedThrows(old, new) ==
    /\ Len(old) = Len(new)
    /\ \E i \in DOMAIN old :
          /\ \A k \in 1..(i - 1) : ~grantChanged(old[k], new[k])
          /\ grantThrows(old[i], new[i])

InitPerm ==
    /\ registry = <<>>
    /\ run = NoRun
    /\ ClientIdle
    /\ \E old \in PermissionLists : \E new \in PushedLists(old) : arg = <<old, new>>

\* #onSessionUpdated computing permissionsChanged
ComputePermissionsChanged ==
    /\ ret = NoRet
    /\ ret' = IF permissionsChangedThrows(arg[1], arg[2])
              THEN Rejected("permissionsChanged", "TypeError")
              ELSE Resolved("permissionsChanged", <<permissionsChanged(arg[1], arg[2])>>)
    /\ UNCHANGED <<frame, phase, rest, azguard, found, warned, subscribed, rpc, session,
                   storage, handlers, inflight, sent, received, log>>

NextPerm == ComputePermissionsChanged

SpecPerm == InitPerm /\ [][NextPerm]_vars

\* C14: permissionsChanged never fails and is true exactly when the two
\* lists differ in length or in some field of some grant, position by
\* position, an absent field being an empty list; so it is true for lists of
\* different lengths and false for equal lists.
PermissionsChangedPositional ==
    ret /= NoRet =>
        LET old == arg[1]
            new == arg[2]
        IN  /\ ret.status = "resolved"
            /\ ret.value = <<Listed(old) /= Listed(new)>>
            /\ Len(old) /= Len(new) => ret.value = <<TRUE>>
            /\ old = new => ret.value = <<FALSE>>

\* two lists that differ only in an absent events field against an empty one
\* in their second grant compare as unchanged
PermissionsChangedPositionalWitness ==
    /\ ret = Resolved("permissionsChanged", <<FALSE>>)
    /\ Len(arg[1]) = 2
    /\ arg[1] /= arg[2]
    /\ arg[1][1].chains = Some(<<"x", "y">>)
    /\ ~arg[1][2].events.def
    /\ arg[2][2].events = Some(<<>>)

(***************************************************************************)
(* Specification of isCompatible on version strings of digits and dots     *)
(***************************************************************************)
MaxVersionLen == 5

VersionChars == {"0", "1", "2", "."}

\* the strings window.azguard.version may hold
VersionStrings == UNION {[1..n -> VersionChars] : n \in 0..MaxVersionLen}

InitVersion ==
    /\ registry = <<>>
    /\ run = NoRun
    /\ ClientIdle
    /\ arg \in VersionStrings

\* a call of isCompatible(arg)
CheckVersion ==
    /\ ret = NoRet
    /\ ret' = Resolved("isCompatible", <<isCompatible(arg)>>)
    /\ UNCHANGED <<frame, phase, rest, azguard, found, warned, subscribed, rpc, session,
                   storage, handlers, inflight, sent, received, log>>

NextVersion == CheckVersion

SpecVersion == InitVersion /\ [][NextVersion]_vars

\* the characters of s before its second dot: its first two segments
FirstTwo(s) ==
    LET dots == {k \in DOMAIN s : s[k] = "."}
    IN  IF Cardinality(dots) < 2
        THEN s
        ELSE SubSeq(s, 1, (CHOOSE k \in dots : Cardinality({j \in dots : j < k}) = 1) - 1)

\* C18: isCompatible returns true exactly when the first two dot-separated
\* segments of its argument are, character by character, those of the
\* client's own version; later segments are ignored, "01.2" is not "1.2",
\* and the call changes nothing but its return value.
CompatibleIffFirstTwo ==
    [][ret' /= NoRet =>
          /\ ret' = Resolved("isCompatible", <<FirstTwo(arg) = FirstTwo(packageVersion)>>)
          /\ arg = <<"0", "1", ".", "2">> => ret'.value = <<FALSE>>
          /\ UNCHANGED <<registry, run, phase, rest, azguard, found, warned, subscribed,
                         rpc, session, storage, handlers, inflight, sent, received, log,
                         timeout, ticks, timer, arg, closing>>]_vars

\* a version with another third segment is compatible
CompatibleIffFirstTwoWitness ==
    /\ arg = <<"1", ".", "2", ".", "1">>
    /\ ret = Resolved("isCompatible", <<TRUE>>)

(***************************************************************************)
(* ShieldSwapAzguardProvider (adapter over one client)                     *)
(***************************************************************************)
MaxCalls == 2

MaxAuthWitnesses == 2

\* the keys of the methods object literal of request
TableNames ==
    {"aztec_requestAccounts", "aztec_accounts", "aztec_sendTransaction", "aztec_call",
     "wallet_watchAssets"}

\* properties the methods object inherits from Object.prototype: functions,
\* and the accessor __proto__ whose value is an object
ObjectPrototypeFunctions == {"toString", "hasOwnProperty", "constructor"}

ObjectPrototypeNames == ObjectPrototypeFunctions \cup {"__proto__"}

\* request.method in methods: own and inherited properties
inMethods(name) == name \in TableNames \cup ObjectPrototypeNames

\* accounts "c:ab" and "c:b" as their characters
AccountAB == <<"c", ":", "a", "b">>

AccountB == <<"c", ":", "b">>

\* sessions of the wallet seen by the adapter
AdapterSessions ==
    {[id |-> "s1", accounts |-> a, permissions |-> <<GrantA>>] :
        a \in {<<AccountAB>>, <<AccountB>>, <<AccountAB, AccountB>>}}

\* request.from
Froms == {<<"a", "b">>, <<"b">>, <<"a">>, <<>>}

\* SerializedFunctionCall
Calls ==
    {[to |-> "t1", selector |-> "f1", args |-> <<>>],
     [to |-> "t2", selector |-> "f2", args |-> <<"1">>]}

AuthWitnesses == {[caller |-> "k1", action |-> c] : c \in Calls}

CallLists == UNION {[1..n -> Calls] : n \in 0..MaxCalls}

AuthWitnessLists == UNION {[1..n -> AuthWitnesses] : n \in 0..MaxAuthWitnesses}

\* the requests a dapp passes to request
Requests ==
    {[method |-> "aztec_sendTransaction",
      params |-> <<[from |-> f, calls |-> c, authWitnesses |-> w]>>] :
        f \in Froms, c \in CallLists, w \in AuthWitnessLists}
    \cup {[method |-> "aztec_call", params |-> <<[from |-> f, calls |-> c]>>] :
            f \in Froms, c \in CallLists}
    \cup {[method |-> m, params |-> <<>>] :
            m \in {"aztec_requestAccounts", "aztec_accounts", "wallet_watchAssets",
                   "eth_accounts"} \cup ObjectPrototypeNames}

\* x.endsWith(suffix)
endsWith(x, suffix) ==
    /\ Len(suffix) <= Len(x)
    /\ SubSeq(x, Len(x) - Len(suffix) + 1, Len(x)) = suffix

\* accounts.find(...) returning the first account whatever request.from is
findFirstAccount(accs, from) ==
    IF accs = <<>> THEN Undefined ELSE Some(accs[1])

\* this.#azguard.accounts.find((x) => x.endsWith(request.from))
findAccount(accs, from) ==
    IF \E k \in DOMAIN accs : endsWith(accs[k], from)
    THEN Some(accs[CHOOSE k \in DOMAIN accs :
                     /\ endsWith(accs[k], from)
                     /\ \A j \in 1..(k - 1) : ~endsWith(accs[j], from)])
    ELSE Undefined

RECURSIVE splitBy(_, _)
\* String.prototype.split(sep) for a one-character separator
splitBy(s, sep) ==
    IF \A i \in DOMAIN s : s[i] /= sep
    THEN <<s>>
    ELSE LET i == CHOOSE k \in DOMAIN s : s[k] = sep /\ \A j \in 1..(k - 1) : s[j] /= sep
         IN  <<SubSeq(s, 1, i - 1)>> \o splitBy(SubSeq(s, i + 1, Len(s)), sep)

\* this.#azguard.accounts.map((x) => x.split(":").at(-1)!)
aztec_accounts(accs) ==
    [k \in DOMAIN accs |-> LET parts == splitBy(accs[k], ":") IN parts[Len(parts)]]

\* x => ({ kind: "add_private_authwit", content: { kind: "encoded_call", ... } })
AddPrivateAuthwitAction(x) ==
    [kind |-> "add_private_authwit",
     content |-> [kind |-> "encoded_call", caller |-> x.caller, to |-> x.action.to,
                  selector |-> x.action.selector, args |-> x.action.args]]

\* x => ({ kind: "encoded_call", to, selector, args })
EncodedCallAction(x) ==
    [kind |-> "encoded_call", to |-> x.to, selector |-> x.selector, args |-> x.args]

\* the actions of #aztec_sendTransaction pushed calls first
sendTransactionActionsCallsFirst(req) ==
    [k \in DOMAIN req.calls |-> EncodedCallAction(req.calls[k])]
    \o [k \in DOMAIN req.authWitnesses |-> AddPrivateAuthwitAction(req.authWitnesses[k])]

\* the actions array of #aztec_sendTransaction after its two push calls
sendTransactionActions(req) ==
    [k \in DOMAIN req.authWitnesses |-> AddPrivateAuthwitAction(req.authWitnesses[k])]
    \o [k \in DOMAIN req.calls |-> EncodedCallAction(req.calls[k])]

\* the operation #aztec_sendTransaction passes to execute
SendTransactionOperation(account, req) ==
    [kind |-> "send_transaction", account |-> account, actions |-> sendTransactionActions(req)]

\* the operation #aztec_call passes to execute
SimulateViewsOperation(account, req) ==
    [kind |-> "simulate_views", account |-> account,
     calls |-> [k \in DOMAIN req.calls |-> EncodedCallAction(req.calls[k])]]

\* the result lists the wallet answers a one-operation execute request with
AdapterResults(req) ==
    IF req.method /= "execute"
    THEN {}
    ELSE {<<[status |-> "failed", error |-> "reverted"]>>,
          <<[status |-> "ok",
             result |-> IF req.operations[1].kind = "send_transaction"
                        THEN "0xhash"
                        ELSE [encoded |-> <<<<"0x1">>>>]]>>}

\* a synchronous throw of request
Thrown(call, error) == [call |-> call, status |-> "threw", error |-> error, value |-> <<>>]

\* a handler that settles without a request to the wallet
Returns(r) ==
    /\ ret' = r
    /\ sent' = <<>>
    /\ UNCHANGED inflight

\* a handler left at its await of a request to the wallet
Submits(call, req) ==
    /\ ret' = Pending(call)
    /\ inflight' = <<req>>
    /\ sent' = <<req>>

\* #aztec_requestAccounts up to its await of this.#azguard.connect
aztec_requestAccounts ==
    IF ~rpc
    THEN Returns(Rejected("#aztec_requestAccounts", "NotInstalled"))
    ELSE Submits("#aztec_requestAccounts", Request("connect", Null, <<>>))

\* this.#azguard.execute(operations) called by handler call, up to its await
adapterExecute(call, operations) ==
    IF ~rpc
    THEN Returns(Rejected(call, "NotInstalled"))
    ELSE IF session = NoSession
    THEN Returns(Rejected(call, "NotConnected"))
    ELSE Submits(call, Request("execute", session.id, operations))

\* #aztec_sendTransaction up to its await of this.#azguard.execute
aztec_sendTransaction(req) ==
    LET account == findAccount(accounts(session), req.from)
    IN  IF ~account.def
        THEN Returns(Rejected("#aztec_sendTransaction", "Unauthorized account"))
        ELSE adapterExecute("#aztec_sendTransaction",
                            <<SendTransactionOperation(account.val, req)>>)

\* #aztec_call up to its await of this.#azguard.execute
aztec_call(req) ==
    LET account == findAccount(accounts(session), req.from)
    IN  IF ~account.def
        THEN Returns(Rejected("#aztec_call", "Unauthorized account"))
        ELSE adapterExecute("#aztec_call", <<SimulateViewsOperation(account.val, req)>>)

\* #wallet_watchAssets
wallet_watchAssets == Returns(Resolved("#wallet_watchAssets", <<>>))

\* ShieldSwapAzguardProvider.request, up to the first await of the handler
request(r) ==
    /\ phase = "ready"
    /\ inflight = <<>>
    /\ arg' = r
    /\ IF ~inMethods(r.method)
       THEN Returns(Thrown("none", "Unsupported method"))
       ELSE IF r.method \in ObjectPrototypeFunctions
       THEN Returns(Resolved("Object.prototype", <<r.method>>))
       ELSE IF r.method \notin TableNames
       THEN Returns(Thrown("none", "TypeError"))
       ELSE CASE r.method = "aztec_requestAccounts" -> aztec_requestAccounts
              [] r.method = "aztec_accounts" ->
                    Returns(Resolved("#aztec_accounts", aztec_accounts(accounts(session))))
              [] r.method = "aztec_sendTransaction" -> aztec_sendTransaction(r.params[1])
              [] r.method = "aztec_call" -> aztec_call(r.params[1])
              [] r.method = "wallet_watchAssets" -> wallet_watchAssets
    /\ received' = NoMessage
    /\ log' = <<>>
    /\ UNCHANGED <<registry, run, closing, timeout, ticks, timer, phase, rest, azguard, found,
                   warned, subscribed, rpc, session, storage, handlers>>

\* the handler awaiting the answer to a request of the adapter
HandlerOf(req) ==
    IF req.method = "connect" THEN "#aztec_requestAccounts"
    ELSE IF req.operations[1].kind = "send_transaction" THEN "#aztec_sendTransaction"
    ELSE "#aztec_call"

\* connect and then #aztec_requestAccounts from the answer to connect on
AdapterConnectResponse(i, s) ==
    /\ inflight[i].method = "connect"
    /\ LET m == connectContinue(Machine, s)
       IN  /\ Commit(m)
           /\ ret' = IF m.threw
                     THEN Rejected("#aztec_requestAccounts", "HandlerError")
                     ELSE Resolved("#aztec_requestAccounts",
                                   aztec_accounts(accounts(m.session)))
    /\ received' = Message("response", inflight[i], s)
    /\ inflight' = Answered(i)
    /\ sent' = <<>>
    /\ arg' = NoRequest
    /\ UNCHANGED <<registry, run, closing, timeout, ticks, timer, phase, rest, azguard,
                   found, warned, subscribed, rpc>>

\* const [result] = await execute(...); the status test and the return
Settle(call, result) ==
    IF ~result.def THEN Rejected(call, "TypeError")
    ELSE IF result.val.status /= "ok"
    THEN Rejected(call, IF call = "#aztec_sendTransaction" THEN "Operation failed"
                                                           ELSE "Simulation failed")
    ELSE IF call = "#aztec_sendTransaction" THEN Resolved(call, <<result.val.result>>)
    ELSE Resolved(call, <<result.val.result.encoded>>)

\* execute and then the handler that called it, from the answer on
AdapterExecuteResponse(i, results) ==
    /\ inflight[i].method = "execute"
    /\ ret' = Settle(HandlerOf(inflight[i]), Destructure(results, 1))
    /\ received' = Message("response", inflight[i], results)
    /\ inflight' = Answered(i)
    /\ sent' = <<>>
    /\ log' = <<>>
    /\ arg' = NoRequest
    /\ UNCHANGED <<registry, run, closing, timeout, ticks, timer, phase, rest, azguard,
                   found, warned, subscribed, rpc,
                   session, storage, handlers>>

\* the channel rejects a request of the adapter: the handler rejects
AdapterRequestRejected(i) ==
    /\ ret' = Rejected(HandlerOf(inflight[i]), "ChannelError")
    /\ received' = Message("rejection", inflight[i], <<>>)
    /\ inflight' = Answered(i)
    /\ sent' = <<>>
    /\ log' = <<>>
    /\ arg' = NoRequest
    /\ UNCHANGED <<registry, run, closing, timeout, ticks, timer, phase, rest, azguard,
                   found, warned, subscribed, rpc,
                   session, storage, handlers>>

\* the adapter after ShieldSwapAzguardProvider.create(): a ready client,
\* #accountsChanged registered on onAccountsChanged and onDisconnected
InitAdapter ==
    /\ registry = <<>>
    /\ run = NoRun
    /\ phase = "ready"
    /\ timeout = 300
    /\ timer = FALSE
    /\ closing = {}
    /\ rpc \in BOOLEAN
    /\ azguard = IF rpc THEN [present |-> TRUE, version |-> <<"1", ".", "2", ".", "9">>]
                        ELSE NoAzguard
    /\ found = azguard
    /\ ticks = IF rpc THEN 1 ELSE 30
    /\ rest = timeout - 10 * ticks
    /\ warned = FALSE
    /\ subscribed = rpc
    /\ session \in {NoSession} \cup {s \in AdapterSessions : rpc}
    /\ storage = IF session = NoSession THEN Null ELSE session.id
    /\ handlers = [e \in Events |-> IF e \in {"accountsChanged", "disconnected"}
                                    THEN <<"#accountsChanged">> ELSE <<>>]
    /\ inflight = <<>>
    /\ sent = <<>>
    /\ ret = Resolved("create", <<>>)
    /\ received = NoMessage
    /\ log = <<>>
    /\ arg = NoRequest

NextAdapter ==
    \/ \E r \in Requests : request(r)
    \/ \E i \in DOMAIN inflight : \E s \in AdapterSessions : AdapterConnectResponse(i, s)
    \/ \E i \in DOMAIN inflight : \E results \in AdapterResults(inflight[i]) :
          AdapterExecuteResponse(i, results)
    \/ \E i \in DOMAIN inflight : AdapterRequestRejected(i)
    \/ \E s \in AdapterSessions : PushSessionUpdated(s)
    \/ PushSessionClosed

SpecAdapter == InitAdapter /\ [][NextAdapter]_vars

\* from is a suffix of account: account is some prefix followed by from
IsSuffix(from, account) == \E k \in 0..Len(account) : account = SubSeq(account, 1, k) \o from

\* C15: aztec_sendTransaction with an authorized from sends one execute
\* request carrying one send_transaction operation for the first account
\* that ends with from; its actions are one add_private_authwit per
\* authWitnesses entry in input order, then one encoded_call per calls
\* entry in input order, no call before an authwit. When the answer's
\* result is not ok the call rejects and returns no hash; when it is ok the
\* call returns the result's hash.
SendTransactionBatch ==
    [][/\ sent' /= <<>> /\ arg'.method = "aztec_sendTransaction" =>
             LET req == arg'.params[1]
                 ops == sent'[1].operations
                 accs == accounts(session)
                 nw == Len(req.authWitnesses)
                 nc == Len(req.calls)
             IN  /\ Len(sent') = 1
                 /\ inflight' = sent'
                 /\ sent'[1].method = "execute"
                 /\ sent'[1].sessionId = session.id
                 /\ Len(ops) = 1
                 /\ ops[1].kind = "send_transaction"
                 /\ \E k \in DOMAIN accs :
                       /\ ops[1].account = accs[k]
                       /\ IsSuffix(req.from, accs[k])
                       /\ \A j \in 1..(k - 1) : ~IsSuffix(req.from, accs[j])
                 /\ Len(ops[1].actions) = nw + nc
                 /\ \A k \in 1..nw :
                       /\ ops[1].actions[k].kind = "add_private_authwit"
                       /\ ops[1].actions[k].content =
                             [kind |-> "encoded_call",
                              caller |-> req.authWitnesses[k].caller,
                              to |-> req.authWitnesses[k].action.to,
                              selector |-> req.authWitnesses[k].action.selector,
                              args |-> req.authWitnesses[k].action.args]
                 /\ \A k \in 1..nc :
                       /\ ops[1].actions[nw + k].kind = "encoded_call"
                       /\ ops[1].actions[nw + k] =
                             [kind |-> "encoded_call", to |-> req.calls[k].to,
                              selector |-> req.calls[k].selector, args |-> req.calls[k].args]
                 /\ \A a, b \in DOMAIN ops[1].actions :
                       a < b => ~(/\ ops[1].actions[a].kind = "encoded_call"
                                  /\ ops[1].actions[b].kind = "add_private_authwit")
       /\ (/\ received'.kind = "response"
           /\ received'.request.method = "execute"
           /\ received'.request.operations[1].kind = "send_transaction") =>
             IF received'.value[1].status = "ok"
             THEN ret' = Resolved("#aztec_sendTransaction", <<received'.value[1].result>>)
             ELSE /\ ret'.call = "#aztec_sendTransaction"
                  /\ ret'.status = "rejected"
                  /\ ret'.value = <<>>]_vars

\* a transaction with two authorization witnesses and two different calls
\* has been submitted for the first of two accounts that end with from
SendTransactionBatchWitness ==
    /\ arg.method = "aztec_sendTransaction"
    /\ sent /= <<>>
    /\ Len(arg.params[1].authWitnesses) = 2
    /\ arg.params[1].authWitnesses[1] /= arg.params[1].authWitnesses[2]
    /\ Len(arg.params[1].calls) = 2
    /\ arg.params[1].calls[1] /= arg.params[1].calls[2]
    /\ Len(sent[1].operations[1].actions) = 4
    /\ accounts(session) = <<AccountAB, AccountB>>
    /\ arg.params[1].from = <<"b">>
    /\ sent[1].operations[1].account = AccountAB

\* C16: aztec_sendTransaction and aztec_call reject with 'Unauthorized
\* account', send nothing and leave the client as it is, whenever no account
\* of the client ends with request.from, so always when the account list is
\* empty; when they send their operation, its account is an account of the
\* client at the call and ends with request.from.
UnauthorizedWithoutExecute ==
    [][received'.kind = "none" /\ arg'.method \in {"aztec_sendTransaction", "aztec_call"} =>
          LET from == arg'.params[1].from
              accs == accounts(session)
              call == IF arg'.method = "aztec_call" THEN "#aztec_call"
                                                    ELSE "#aztec_sendTransaction"
          IN  /\ (\A k \in DOMAIN accs : ~IsSuffix(from, accs[k])) =>
                    /\ ret' = Rejected(call, "Unauthorized account")
                    /\ sent' = <<>>
                    /\ log' = <<>>
                    /\ UNCHANGED <<inflight, session, storage, handlers, rpc>>
              /\ accs = <<>> => ret' = Rejected(call, "Unauthorized account")
              /\ sent' /= <<>> =>
                    /\ sent'[1].method = "execute"
                    /\ \E k \in DOMAIN accs :
                          /\ sent'[1].operations[1].account = accs[k]
                          /\ IsSuffix(from, accs[k])]_vars

\* aztec_call from an address of no account of a connected client
UnauthorizedWithoutExecuteWitness ==
    /\ arg.method = "aztec_call"
    /\ ret = Rejected("#aztec_call", "Unauthorized account")
    /\ accounts(session) = <<AccountAB, AccountB>>
    /\ arg.params[1].from = <<"a">>
    /\ sent = <<>>
    /\ inflight = <<>>

\* C17: request runs a handler only for the five names of the table; for
\* every other method name it fails with 'Unsupported method', runs no
\* function and calls nothing on the client.
RequestOnlyTable ==
    [][received'.kind = "none" /\ arg'.method \notin TableNames =>
          /\ ret' = Thrown("none", "Unsupported method")
          /\ sent' = <<>>
          /\ log' = <<>>
          /\ UNCHANGED <<inflight, session, storage, handlers, rpc>>]_vars

(***************************************************************************)
(* The session, its storage entry and the events, across pushes            *)
(***************************************************************************)
\* C21: between the steps of a client that create() has returned, a held
\* session has its id in the storage entry, and with no entry the client is
\* not connected.
StorageMatchesSession ==
    phase = "ready" =>
        /\ connected(session) => storage = session.id
        /\ storage = Null => ~connected(session)

\* C23: a push delivered while #init awaits get_session is what the client
\* returned by create() shows: after a session_closed push it is not
\* connected, after a session_updated push it holds the pushed session.
RestorePushesKept ==
    [][(/\ phase = "restoring"
        /\ received'.kind = "response"
        /\ received'.request.method = "get_session") =>
          /\ received.kind = "session_closed" => ~connected(session')
          /\ received.kind = "session_updated" => session' = received.value]_vars

\* C24: handlers of the disconnected event run only in a step that began
\* with a session held, so a session_closed push to a client that is not
\* connected runs none; and a client that create() has returned becomes
\* connected only by the answer to connect.
DisconnectedOnlyWhenConnected ==
    [][/\ \A k \in DOMAIN log' : log'[k].event = "disconnected" => connected(session)
       /\ received'.kind = "session_closed" /\ ~connected(session) => log' = <<>>
       /\ phase = "ready" /\ ~connected(session) /\ connected(session') =>
             /\ received'.kind = "response"
             /\ received'.request.method = "connect"]_vars

(***************************************************************************)
(* Specification of disconnect() raced by connect(): a client that holds   *)
(* a restored session, and a wallet that answers close_session and         *)
(* delivers the session_closed push of the closed session later            *)
(***************************************************************************)
\* disconnect from the answer to its request on; the wallet has closed the
\* session of the request and owes its session_closed push
WalletClosesSession(i) ==
    /\ inflight[i].method = "close_session"
    /\ closing' = closing \cup {inflight[i].sessionId}
    /\ ret' = Resolved("disconnect", <<>>)
    /\ received' = Message("response", inflight[i], <<>>)
    /\ inflight' = Answered(i)
    /\ sent' = <<>>
    /\ log' = <<>>
    /\ UNCHANGED <<registry, run, timeout, ticks, timer, arg, phase, rest, azguard,
                   found, warned, subscribed, rpc, session, storage, handlers>>

\* the channel delivers the session_closed() push of the closed session a
PushSessionClosedFor(a) ==
    /\ subscribed
    /\ a \in closing
    /\ closing' = closing \ {a}
    /\ Commit(onSessionClosed(Machine))
    /\ received' = Message("session_closed", Request("none", Null, <<>>), <<>>)
    /\ ret' = NoRet
    /\ sent' = <<>>
    /\ arg' = NoRequest
    /\ UNCHANGED <<registry, run, timeout, ticks, timer, phase, rest, azguard,
                   found, warned, subscribed, rpc, inflight>>

\* the client create() returned after it restored the session s1
InitRace ==
    /\ registry = <<>>
    /\ run = NoRun
    /\ phase = "ready"
    /\ timeout \in Timeouts
    /\ rest = timeout - 10
    /\ ticks = 1
    /\ timer = FALSE
    /\ arg = NoRequest
    /\ closing = {}
    /\ azguard \in {[present |-> TRUE, version |-> v] : v \in WalletVersions}
    /\ found = azguard
    /\ warned = ~isCompatible(found.version)
    /\ subscribed = TRUE
    /\ rpc = TRUE
    /\ session \in {s \in Sessions : s.id = "s1"}
    /\ storage = "s1"
    /\ handlers = [e \in Events |-> <<>>]
    /\ inflight = <<>>
    /\ sent = <<>>
    /\ ret = Resolved("create", <<>>)
    /\ received = Message("response", Request("get_session", "s1", <<>>), session)
    /\ log = <<>>

NextRace ==
    \/ disconnect
    \/ \E i \in DOMAIN inflight : WalletClosesSession(i)
    \/ connect
    \/ \E i \in DOMAIN inflight : \E s \in Sessions : ConnectResponse(i, s)
    \/ \E a \in SessionIds : PushSessionClosedFor(a)
    \/ \E i \in DOMAIN inflight : RequestRejected(i)
    \/ \E ev \in Events : \E h \in ClientHandlers : AddHandler(ev, h)
    \/ \E ev \in Events : \E h \in ClientHandlers : RemoveHandler(ev, h)

SpecRace == InitRace /\ [][NextRace]_vars

\* C22: the session_closed push of a session closed by disconnect(), when it
\* is delivered after connect() has put a newer session in place, leaves
\* that session and its storage entry alone and runs no handler of the
\* disconnected event.
LatePushKeepsNewSession ==
    [][\A a \in closing :
          (/\ received'.kind = "session_closed"
           /\ closing' = closing \ {a}
           /\ connected(session)
           /\ session.id /= a) =>
             /\ session' = session
             /\ storage' = storage
             /\ \A k \in DOMAIN log' : log'[k].event /= "disconnected"]_vars

====
